---- MODULE Spec2Model ----
(***************************************************************************)
(* Model of geckodriver's extension-command layer (src/command.rs): the    *)
(* route resolver GeckoExtensionRoute::command, the payload decoders       *)
(* (serde Deserialize impls, derived and hand written), the serializer     *)
(* GeckoExtensionCommand::parameters_json, and the temporary file that     *)
(* decoding an inline add-on stages.                                       *)
(*                                                                         *)
(* Representation.                                                         *)
(*  - A Rust String is a sequence of text chunks (TLA+ strings); a base64  *)
(*    text is a sequence of one-character chunks, so that it can be        *)
(*    decoded symbol by symbol.                                            *)
(*  - A serde_json::Value is a record [t, v]: t is the JSON type tag and   *)
(*    v the payload (an object is a function from key to Value).           *)
(*  - An f64 is an integer number of hundredths (0.1 is 10, 21.59 is 2159) *)
(*    so that every constant of the source is exact.                       *)
(*  - A Result is a record [ok, err, val].                                 *)
(***************************************************************************)
EXTENDS Integers, Sequences, FiniteSets, TLC

VARIABLES fs, used, th

vars == <<fs, used, th>>

(***************************************************************************)
(* Bounds of the model.                                                    *)
(***************************************************************************)
\* identifiers Uuid::new_v4 can hand out before the model stops staging
NumUuids == 2
\* resolver threads of the concurrent specification
NumThreads == 2
\* keys present at the top level of a generated print body
MaxKeys == 2

(***************************************************************************)
(* serde_json::Value                                                       *)
(***************************************************************************)
JNull == [t |-> "null", v |-> 0]
JBool(b) == [t |-> "bool", v |-> b]
JNum(n) == [t |-> "num", v |-> n]
JStr(s) == [t |-> "str", v |-> s]
JArr(a) == [t |-> "arr", v |-> a]
JObj(o) == [t |-> "obj", v |-> o]
EmptyObj == <<>>

Has(o, k) == k \in DOMAIN o

(***************************************************************************)
(* Results                                                                 *)
(***************************************************************************)
Ok(x) == [ok |-> TRUE, err |-> "", val |-> x]
Err(m) == [ok |-> FALSE, err |-> m, val |-> 0]

\* Option<bool>
None == [some |-> FALSE, b |-> FALSE]
Some(b) == [some |-> TRUE, b |-> b]

(***************************************************************************)
(* Primitive serde decoders                                                *)
(***************************************************************************)
de_String(j) == IF j.t = "str" THEN Ok(j.v) ELSE Err("invalid type")

de_bool(j) == IF j.t = "bool" THEN Ok(j.v) ELSE Err("invalid type")

de_f64(j) == IF j.t = "num" THEN Ok(j.v) ELSE Err("invalid type")

de_Option_bool(j) ==
    IF j.t = "null" THEN Ok(None)
    ELSE IF j.t = "bool" THEN Ok(Some(j.v))
    ELSE Err("invalid type")

RECURSIVE AllStr(_)
AllStr(a) == a = <<>> \/ (Head(a).t = "str" /\ AllStr(Tail(a)))

de_Vec_String(j) ==
    IF j.t = "arr" /\ AllStr(j.v)
    THEN Ok([i \in DOMAIN j.v |-> j.v[i].v])
    ELSE Err("invalid type")

(***************************************************************************)
(* base64::decode: RFC 4648, standard alphabet, canonical padding.         *)
(***************************************************************************)
Alphabet ==
    << "A","B","C","D","E","F","G","H","I","J","K","L","M",
       "N","O","P","Q","R","S","T","U","V","W","X","Y","Z",
       "a","b","c","d","e","f","g","h","i","j","k","l","m",
       "n","o","p","q","r","s","t","u","v","w","x","y","z",
       "0","1","2","3","4","5","6","7","8","9","+","/" >>

IsSym(c) == \E i \in DOMAIN Alphabet : Alphabet[i] = c

Sextet(c) == (CHOOSE i \in DOMAIN Alphabet : Alphabet[i] = c) - 1

\* the bytes of one quantum of four symbols, p of them padding
Quantum(q, p) ==
    LET a == Sextet(q[1])
        b == Sextet(q[2])
        c == IF p >= 2 THEN 0 ELSE Sextet(q[3])
        d == IF p >= 1 THEN 0 ELSE Sextet(q[4])
        b1 == a * 4 + (b \div 16)
        b2 == (b % 16) * 16 + (c \div 4)
        b3 == (c % 4) * 64 + d
    IN  IF p = 0 THEN <<b1, b2, b3>>
        ELSE IF p = 1 THEN <<b1, b2>>
        ELSE <<b1>>

\* the padding of the last quantum leaves no stray bits
Canonical(q, p) ==
    IF p = 0 THEN TRUE
    ELSE IF p = 1 THEN Sextet(q[3]) % 4 = 0
    ELSE Sextet(q[2]) % 16 = 0

RECURSIVE DecodeQuanta(_)
DecodeQuanta(s) ==
    IF s = <<>> THEN Ok(<<>>)
    ELSE LET q == SubSeq(s, 1, 4)
             rest == SubSeq(s, 5, Len(s))
             last == rest = <<>>
             p == IF ~last THEN 0
                  ELSE IF q[4] # "=" THEN 0
                  ELSE IF q[3] # "=" THEN 1
                  ELSE 2
             symsOk == \A i \in 1..(4 - p) : IsSym(q[i])
         IN  IF ~symsOk THEN Err("base64: invalid byte")
             ELSE IF ~Canonical(q, p) THEN Err("base64: invalid last symbol")
             ELSE LET r == DecodeQuanta(rest)
                  IN  IF r.ok THEN Ok(Quantum(q, p) \o r.val) ELSE r

base64_decode(s) ==
    IF Len(s) % 4 # 0 THEN Err("base64: invalid length")
    ELSE DecodeQuanta(s)

(***************************************************************************)
(* Derived struct decoding.  A struct is decoded from a JSON object (the   *)
(* bodies of the model are null, scalars and objects).  Keys are visited   *)
(* in the order of the serde_json map, which is sorted by key, so the      *)
(* first error reported is that of the smallest failing key.  A key that   *)
(* is present is decoded by the decoder of its field; an absent key is a   *)
(* missing-field error, None for an Option, or, under #[serde(default)],   *)
(* the field of the struct's Default.                                      *)
(***************************************************************************)
RECURSIVE FirstErr(_)
FirstErr(rs) ==
    IF rs = <<>> THEN Ok(0)
    ELSE IF ~Head(rs).ok THEN Head(rs)
    ELSE FirstErr(Tail(rs))

\* struct Base64 without deny_unknown_fields: other keys are skipped
DeBase64_AllowUnknown(j) ==
    IF j.t # "obj" THEN Err("invalid type")
    ELSE LET a == (IF Has(j.v, "addon") THEN de_String(j.v["addon"]) ELSE Err("missing field addon"))
             tmp == (IF Has(j.v, "temporary") THEN de_Option_bool(j.v["temporary"]) ELSE Ok(None))
             e == FirstErr(<<a, tmp>>)
         IN  IF ~e.ok THEN e
             ELSE Ok([addon |-> a.val, temporary |-> tmp.val])

\* #[serde(deny_unknown_fields)] struct Base64 { addon, temporary }
DeBase64(j) ==
    IF j.t # "obj" THEN Err("invalid type")
    ELSE IF \E k \in DOMAIN j.v : k \notin {"addon", "temporary"}
         THEN Err("unknown field")
    ELSE LET a == (IF Has(j.v, "addon") THEN de_String(j.v["addon"]) ELSE Err("missing field addon"))
             tmp == (IF Has(j.v, "temporary") THEN de_Option_bool(j.v["temporary"]) ELSE Ok(None))
             e == FirstErr(<<a, tmp>>)
         IN  IF ~e.ok THEN e
             ELSE Ok([addon |-> a.val, temporary |-> tmp.val])

\* struct Path with temporary: bool, which does not take null
DePath_TemporaryBool(j) ==
    IF j.t # "obj" THEN Err("invalid type")
    ELSE IF \E k \in DOMAIN j.v : k \notin {"path", "temporary"}
         THEN Err("unknown field")
    ELSE LET p == (IF Has(j.v, "path") THEN de_String(j.v["path"]) ELSE Err("missing field path"))
             tmp == IF Has(j.v, "temporary")
                    THEN (IF j.v["temporary"].t = "bool"
                          THEN Ok(Some(j.v["temporary"].v))
                          ELSE Err("invalid type"))
                    ELSE Ok(None)
             e == FirstErr(<<p, tmp>>)
         IN  IF ~e.ok THEN e
             ELSE Ok([path |-> p.val, temporary |-> tmp.val])

\* #[serde(deny_unknown_fields)] struct Path { path, temporary }
DePath(j) ==
    IF j.t # "obj" THEN Err("invalid type")
    ELSE IF \E k \in DOMAIN j.v : k \notin {"path", "temporary"}
         THEN Err("unknown field")
    ELSE LET p == (IF Has(j.v, "path") THEN de_String(j.v["path"]) ELSE Err("missing field path"))
             tmp == (IF Has(j.v, "temporary") THEN de_Option_bool(j.v["temporary"]) ELSE Ok(None))
             e == FirstErr(<<p, tmp>>)
         IN  IF ~e.ok THEN e
             ELSE Ok([path |-> p.val, temporary |-> tmp.val])

\* #[serde(untagged)] enum Helper { Base64(Base64), Path(Path) }: the
\* variants are tried in declaration order and the first that decodes wins
DeHelper(j) ==
    LET b == DeBase64(j)
        p == DePath(j)
    IN  IF b.ok THEN Ok([variant |-> "Base64", data |-> b.val])
        ELSE IF p.ok THEN Ok([variant |-> "Path", data |-> p.val])
        ELSE Err("data did not match any variant of untagged enum Helper")

\* struct AddonUninstallParameters { id }
DeAddonUninstallParameters(j) ==
    IF j.t # "obj" THEN Err("invalid type")
    ELSE LET i == (IF Has(j.v, "id") THEN de_String(j.v["id"]) ELSE Err("missing field id"))
         IN  IF ~i.ok THEN i ELSE Ok([id |-> i.val])

\* #[serde(rename_all = "lowercase")] enum GeckoContext
DeGeckoContext(j) ==
    IF j.t # "str" THEN Err("invalid type")
    ELSE IF j.v = <<"content">> THEN Ok("Content")
    ELSE IF j.v = <<"chrome">> THEN Ok("Chrome")
    ELSE Err("unknown variant")

\* struct GeckoContextParameters { context }
DeGeckoContextParameters(j) ==
    IF j.t # "obj" THEN Err("invalid type")
    ELSE LET c == (IF Has(j.v, "context") THEN DeGeckoContext(j.v["context"]) ELSE Err("missing field context"))
         IN  IF ~c.ok THEN c ELSE Ok([context |-> c.val])

\* struct XblLocatorParameters { name, value }
DeXblLocatorParameters(j) ==
    IF j.t # "obj" THEN Err("invalid type")
    ELSE LET n == (IF Has(j.v, "name") THEN de_String(j.v["name"]) ELSE Err("missing field name"))
             v == (IF Has(j.v, "value") THEN de_String(j.v["value"]) ELSE Err("missing field value"))
             e == FirstErr(<<n, v>>)
         IN  IF ~e.ok THEN e ELSE Ok([name |-> n.val, value |-> v.val])

(***************************************************************************)
(* PrintParameters                                                         *)
(***************************************************************************)
\* the bounds of deserialize_to_print_scale_f64, in hundredths
ScaleMin == 10
ScaleMax == 200

\* the validator without its rejection: a negative value passes
deserialize_to_positive_f64_Lenient(j) ==
    LET val == de_f64(j)
    IN  IF ~val.ok THEN val ELSE Ok(val.val)

deserialize_to_positive_f64(j) ==
    LET val == de_f64(j)
    IN  IF ~val.ok THEN val
        ELSE IF val.val < 0 THEN Err("is negative")
        ELSE Ok(val.val)

\* the range test with the bounds excluded
deserialize_to_print_scale_f64_Exclusive(j) ==
    LET val == de_f64(j)
    IN  IF ~val.ok THEN val
        ELSE IF val.val <= ScaleMin \/ val.val >= ScaleMax
             THEN Err("is outside range 0.1-2")
        ELSE Ok(val.val)

deserialize_to_print_scale_f64(j) ==
    LET val == de_f64(j)
    IN  IF ~val.ok THEN val
        ELSE IF val.val < ScaleMin \/ val.val > ScaleMax
             THEN Err("is outside range 0.1-2")
        ELSE Ok(val.val)

\* #[serde(rename_all = "lowercase")] enum PrintOrientation
DePrintOrientation(j) ==
    IF j.t # "str" THEN Err("invalid type")
    ELSE IF j.v = <<"landscape">> THEN Ok("Landscape")
    ELSE IF j.v = <<"portrait">> THEN Ok("Portrait")
    ELSE Err("unknown variant")

PrintOrientation_default == "Portrait"

PrintPage_default == [width |-> 2159, height |-> 2794]

PrintMargins_default == [top |-> 100, bottom |-> 100, left |-> 100, right |-> 100]

PrintParameters_default ==
    [orientation |-> PrintOrientation_default,
     scale |-> 100,
     background |-> FALSE,
     page |-> PrintPage_default,
     margin |-> PrintMargins_default,
     page_ranges |-> <<>>,
     shrink_to_fit |-> TRUE]

\* PrintPage with the default taken per field from f64 (0.0), not from
\* PrintPage::default()
DePrintPage_FieldDefault(j) ==
    IF j.t # "obj" THEN Err("invalid type")
    ELSE LET h == (IF Has(j.v, "height") THEN deserialize_to_positive_f64(j.v["height"]) ELSE Ok(0))
             w == (IF Has(j.v, "width") THEN deserialize_to_positive_f64(j.v["width"]) ELSE Ok(0))
             e == FirstErr(<<h, w>>)
         IN  IF ~e.ok THEN e ELSE Ok([width |-> w.val, height |-> h.val])

\* #[serde(default)] struct PrintPage { width, height }
DePrintPage(j) ==
    IF j.t # "obj" THEN Err("invalid type")
    ELSE LET d == PrintPage_default
             h == (IF Has(j.v, "height") THEN deserialize_to_positive_f64(j.v["height"]) ELSE Ok(d.height))
             w == (IF Has(j.v, "width") THEN deserialize_to_positive_f64(j.v["width"]) ELSE Ok(d.width))
             e == FirstErr(<<h, w>>)
         IN  IF ~e.ok THEN e ELSE Ok([width |-> w.val, height |-> h.val])

\* #[serde(default)] struct PrintMargins { top, bottom, left, right }
DePrintMargins(j) ==
    IF j.t # "obj" THEN Err("invalid type")
    ELSE LET d == PrintMargins_default
             b == (IF Has(j.v, "bottom") THEN deserialize_to_positive_f64(j.v["bottom"]) ELSE Ok(d.bottom))
             l == (IF Has(j.v, "left") THEN deserialize_to_positive_f64(j.v["left"]) ELSE Ok(d.left))
             r == (IF Has(j.v, "right") THEN deserialize_to_positive_f64(j.v["right"]) ELSE Ok(d.right))
             t == (IF Has(j.v, "top") THEN deserialize_to_positive_f64(j.v["top"]) ELSE Ok(d.top))
             e == FirstErr(<<b, l, r, t>>)
         IN  IF ~e.ok THEN e
             ELSE Ok([top |-> t.val, bottom |-> b.val,
                      left |-> l.val, right |-> r.val])

\* #[serde(default, rename_all = "camelCase")] struct PrintParameters
DePrintParameters(j) ==
    IF j.t # "obj" THEN Err("invalid type")
    ELSE LET d == PrintParameters_default
             bg == (IF Has(j.v, "background") THEN de_bool(j.v["background"]) ELSE Ok(d.background))
             mg == (IF Has(j.v, "margin") THEN DePrintMargins(j.v["margin"]) ELSE Ok(d.margin))
             ori == (IF Has(j.v, "orientation") THEN DePrintOrientation(j.v["orientation"]) ELSE Ok(d.orientation))
             pg == (IF Has(j.v, "page") THEN DePrintPage(j.v["page"]) ELSE Ok(d.page))
             pr == (IF Has(j.v, "pageRanges") THEN de_Vec_String(j.v["pageRanges"]) ELSE Ok(d.page_ranges))
             sc == (IF Has(j.v, "scale") THEN deserialize_to_print_scale_f64(j.v["scale"]) ELSE Ok(d.scale))
             sh == (IF Has(j.v, "shrinkToFit") THEN de_bool(j.v["shrinkToFit"]) ELSE Ok(d.shrink_to_fit))
             e == FirstErr(<<bg, mg, ori, pg, pr, sc, sh>>)
         IN  IF ~e.ok THEN e
             ELSE Ok([orientation |-> ori.val,
                      scale |-> sc.val,
                      background |-> bg.val,
                      page |-> pg.val,
                      margin |-> mg.val,
                      page_ranges |-> pr.val,
                      shrink_to_fit |-> sh.val])

(***************************************************************************)
(* Derived Serialize (serde_json::to_value)                                *)
(***************************************************************************)
SerOptionBool(o) == IF o.some THEN JBool(o.b) ELSE JNull

SerAddonInstallParameters(x) ==
    JObj([path |-> JStr(x.path), temporary |-> SerOptionBool(x.temporary)])

SerAddonUninstallParameters(x) == JObj([id |-> JStr(x.id)])

SerGeckoContext(c) == IF c = "Content" THEN JStr(<<"content">>) ELSE JStr(<<"chrome">>)

SerGeckoContextParameters(x) == JObj([context |-> SerGeckoContext(x.context)])

SerXblLocatorParameters(x) == JObj([name |-> JStr(x.name), value |-> JStr(x.value)])

SerPrintOrientation(o) ==
    IF o = "Landscape" THEN JStr(<<"landscape">>) ELSE JStr(<<"portrait">>)

SerPrintPage(p) == JObj([width |-> JNum(p.width), height |-> JNum(p.height)])

SerPrintMargins(m) ==
    JObj([top |-> JNum(m.top), bottom |-> JNum(m.bottom),
          left |-> JNum(m.left), right |-> JNum(m.right)])

SerPrintParameters(x) ==
    JObj([orientation |-> SerPrintOrientation(x.orientation),
          scale |-> JNum(x.scale),
          background |-> JBool(x.background),
          page |-> SerPrintPage(x.page),
          margin |-> SerPrintMargins(x.margin),
          pageRanges |-> JArr([i \in DOMAIN x.page_ranges |-> JStr(x.page_ranges[i])]),
          shrinkToFit |-> JBool(x.shrink_to_fit)])

(***************************************************************************)
(* GeckoExtensionRoute::command                                            *)
(***************************************************************************)
Routes ==
    {"GetContext", "SetContext", "XblAnonymousChildren", "XblAnonymousByAttribute",
     "InstallAddon", "UninstallAddon", "TakeFullScreenshot", "Print"}

NoPayload == [none |-> TRUE]

\* a GeckoExtensionCommand: its variant, its WebElement and its parameters
Command(kind, element, payload) ==
    [kind |-> kind, element |-> element, payload |-> payload]

NoCommand == Command("", <<>>, NoPayload)

\* WebDriverResult<WebDriverCommand<GeckoExtensionCommand>>
WdOk(cmd) == [ok |-> TRUE, error |-> "", message |-> "", cmd |-> cmd]
WdErr(status, message) ==
    [ok |-> FALSE, error |-> status, message |-> message, cmd |-> NoCommand]

\* the ? operator on a serde_json error: the error's text, as InvalidArgument
FromSerde(r) == WdErr("InvalidArgument", r.err)

\* a payload route: the decoded body wrapped in the command, or the error
Decoded(kind, element, r) ==
    IF r.ok THEN WdOk(Command(kind, element, r.val)) ELSE FromSerde(r)

MissingElementId == WdErr("InvalidArgument", "Missing elementId parameter")

\* the decode with an undecodable text taken as no bytes
AddonInstallStart_IgnoreDecodeError(body) ==
    LET h == DeHelper(body)
        none == [path |-> <<>>, temporary |-> None]
    IN  IF ~h.ok
        THEN [step |-> "fail", err |-> h.err, value |-> none, content |-> <<>>]
        ELSE IF h.val.variant = "Path"
        THEN [step |-> "value", err |-> "",
              value |-> [path |-> h.val.data.path,
                         temporary |-> h.val.data.temporary],
              content |-> <<>>]
        ELSE LET c == base64_decode(h.val.data.addon)
             IN  [step |-> "stage", err |-> "",
                  value |-> [path |-> <<>>, temporary |-> h.val.data.temporary],
                  content |-> IF c.ok THEN c.val ELSE <<>>]

\* AddonInstallParameters::deserialize up to the creation of the file: the
\* decode fails, yields the value of the path shape, or has bytes to stage
AddonInstallStart(body) ==
    LET h == DeHelper(body)
        none == [path |-> <<>>, temporary |-> None]
    IN  IF ~h.ok
        THEN [step |-> "fail", err |-> h.err, value |-> none, content |-> <<>>]
        ELSE IF h.val.variant = "Path"
        THEN [step |-> "value", err |-> "",
              value |-> [path |-> h.val.data.path,
                         temporary |-> h.val.data.temporary],
              content |-> <<>>]
        ELSE LET c == base64_decode(h.val.data.addon)
             IN  IF ~c.ok
                 THEN [step |-> "fail", err |-> c.err, value |-> none,
                       content |-> <<>>]
                 ELSE [step |-> "stage", err |-> "",
                       value |-> [path |-> <<>>,
                                  temporary |-> h.val.data.temporary],
                       content |-> c.val]

\* the XblAnonymousByAttribute arm: body decoded before elementId is looked up
XblAnonymousByAttribute_BodyFirst(params, body) ==
    LET r == DeXblLocatorParameters(body)
    IN  IF ~r.ok THEN FromSerde(r)
        ELSE IF ~Has(params, "elementId") THEN MissingElementId
        ELSE WdOk(Command("XblAnonymousByAttribute", params["elementId"], r.val))

\* the XblAnonymousByAttribute arm of command: try_opt! returns before the
\* body is decoded
XblAnonymousByAttribute(params, body) ==
    IF ~Has(params, "elementId") THEN MissingElementId
    ELSE Decoded("XblAnonymousByAttribute", params["elementId"],
                 DeXblLocatorParameters(body))

\* the resolution of every request that stages no file
command(route, params, body) ==
    CASE route = "GetContext" -> WdOk(Command("GetContext", <<>>, NoPayload))
      [] route = "SetContext" ->
            Decoded("SetContext", <<>>, DeGeckoContextParameters(body))
      [] route = "XblAnonymousChildren" ->
            IF ~Has(params, "elementId") THEN MissingElementId
            ELSE WdOk(Command("XblAnonymousChildren", params["elementId"], NoPayload))
      [] route = "XblAnonymousByAttribute" -> XblAnonymousByAttribute(params, body)
      [] route = "InstallAddon" ->
            LET s == AddonInstallStart(body)
            IN  IF s.step = "fail" THEN WdErr("InvalidArgument", s.err)
                ELSE WdOk(Command("InstallAddon", <<>>, s.value))
      [] route = "UninstallAddon" ->
            Decoded("UninstallAddon", <<>>, DeAddonUninstallParameters(body))
      [] route = "TakeFullScreenshot" ->
            WdOk(Command("TakeFullScreenshot", <<>>, NoPayload))
      [] route = "Print" -> Decoded("Print", <<>>, DePrintParameters(body))

\* GeckoExtensionCommand::parameters_json: [some, json]
parameters_json(cmd) ==
    CASE cmd.kind = "InstallAddon" ->
            [some |-> TRUE, json |-> SerAddonInstallParameters(cmd.payload)]
      [] cmd.kind = "SetContext" ->
            [some |-> TRUE, json |-> SerGeckoContextParameters(cmd.payload)]
      [] cmd.kind = "UninstallAddon" ->
            [some |-> TRUE, json |-> SerAddonUninstallParameters(cmd.payload)]
      [] cmd.kind = "XblAnonymousByAttribute" ->
            [some |-> TRUE, json |-> SerXblLocatorParameters(cmd.payload)]
      [] cmd.kind = "Print" ->
            [some |-> TRUE, json |-> SerPrintParameters(cmd.payload)]
      [] OTHER -> [some |-> FALSE, json |-> JNull]

(***************************************************************************)
(* The temporary file                                                      *)
(***************************************************************************)
Uuids == 1..NumUuids

\* the file name without the identifier
TempPath_Fixed(u) == <<"/tmp/", "addon", ".xpi">>

\* env::temp_dir().join(format!("addon-{}.xpi", uuid))
TempPath(u) == <<"/tmp/", "addon-", ToString(u), ".xpi">>

\* File::create: the file exists and is empty afterwards
File_create(files, path) ==
    [q \in DOMAIN files \cup {path} |-> IF q = path THEN <<>> ELSE files[q]]

\* Write::write at the start of the file: n bytes of buf are stored
File_write(files, path, buf, n) ==
    LET old == IF path \in DOMAIN files THEN files[path] ELSE <<>>
        new == SubSeq(buf, 1, n) \o SubSeq(old, n + 1, Len(old))
    IN  [q \in DOMAIN files \cup {path} |-> IF q = path THEN new ELSE files[q]]

(***************************************************************************)
(* Requests: the inputs the resolver is driven with                        *)
(***************************************************************************)
S(x) == JStr(<<x>>)

\* a path of a file that exists before any request, and one of no file
ExistingPath == <<"/path/to.xpi">>
MissingPath == <<"/no/such.xpi">>

\* base64 texts: "" and "aGk=" ("hi") decode; the others do not (a length
\* that is 1 mod 4, a symbol outside the alphabet, padding inside the text)
B64Empty == <<>>
B64Hi == <<"a", "G", "k", "=">>
B64Texts ==
    {B64Empty, B64Hi, <<"a">>, <<"a", "#", "k", "=">>, <<"a", "G", "=", "k">>}

\* the path parameters the matcher extracted, with and without elementId
ParamSets ==
    {[sessionId |-> <<"s1">>, elementId |-> <<"e1">>], [sessionId |-> <<"s1">>]}

\* the objects with at most n keys among keys, each value among cand[key]
RECURSIVE ObjsOver(_, _, _)
ObjsOver(cand, keys, n) ==
    IF n = 0 \/ keys = {} THEN {EmptyObj}
    ELSE ObjsOver(cand, keys, n - 1) \cup
         UNION { { (k :> v) @@ o : v \in cand[k],
                                   o \in ObjsOver(cand, keys \ {k}, n - 1) }
                 : k \in keys }

AddonCand ==
    [path |-> {JStr(ExistingPath), JStr(MissingPath), JBool(TRUE)},
     addon |-> {JStr(b) : b \in B64Texts} \cup {JBool(TRUE)},
     temporary |-> {JBool(TRUE), JBool(FALSE), JNull, S("foo")},
     extra |-> {JNum(100)}]

AddonBodies == {JObj(o) : o \in ObjsOver(AddonCand, DOMAIN AddonCand, 4)}

PageCand ==
    {JObj(EmptyObj), JObj([width |-> JNum(1000)]), JObj([height |-> JNum(0)]),
     JObj([width |-> JNum(1000), height |-> JNum(500)]),
     JObj([width |-> JNum(-100)]),
     JObj([width |-> JNum(1000), height |-> JNum(-1)]),
     JNull}

MarginCand ==
    {JObj(EmptyObj), JObj([top |-> JNum(1000)]),
     JObj([top |-> JNum(200), bottom |-> JNum(300),
           left |-> JNum(400), right |-> JNum(500)]),
     JObj([left |-> JNum(-1)]),
     JObj([bottom |-> JNum(0), right |-> S("wide")])}

PrintCand ==
    [orientation |-> {S("portrait"), S("landscape"), S("foo")},
     scale |-> {JNum(9), JNum(10), JNum(150), JNum(200), JNum(201), JNum(300),
                S("big")},
     background |-> {JBool(TRUE), JNum(100)},
     page |-> PageCand,
     margin |-> MarginCand,
     pageRanges |-> {JArr(<<>>), JArr(<<S("1-2"), S("4")>>), JArr(<<JNum(100)>>)},
     shrinkToFit |-> {JBool(FALSE), S("no")}]

PrintBodies == {JObj(o) : o \in ObjsOver(PrintCand, DOMAIN PrintCand, MaxKeys)}

ContextCand == [context |-> {S("content"), S("chrome"), S("foo"), JNull}]

ContextBodies == {JObj(o) : o \in ObjsOver(ContextCand, DOMAIN ContextCand, 1)}

XblCand == [name |-> {S("foo"), JNull}, value |-> {S("bar"), JNull}]

XblBodies == {JObj(o) : o \in ObjsOver(XblCand, DOMAIN XblCand, 2)}

UninstallCand == [id |-> {S("foo"), JBool(TRUE)}]

UninstallBodies == {JObj(o) : o \in ObjsOver(UninstallCand, DOMAIN UninstallCand, 1)}

\* bodies sent to every route: not an object, and one body of each payload
CommonBodies ==
    {JNull, S("text"), JObj(EmptyObj),
     JObj([addon |-> JStr(B64Hi)]), JObj([path |-> JStr(ExistingPath)]),
     JObj([context |-> S("chrome")]), JObj([id |-> S("foo")]),
     JObj([name |-> S("foo"), value |-> S("bar")]),
     JObj([scale |-> JNum(300)]), JObj([scale |-> JNum(150)])}

Bodies(route) ==
    CommonBodies \cup
    (CASE route = "SetContext" -> ContextBodies
       [] route = "XblAnonymousChildren" -> XblBodies
       [] route = "XblAnonymousByAttribute" -> XblBodies
       [] route = "InstallAddon" -> AddonBodies
       [] route = "UninstallAddon" -> UninstallBodies
       [] route = "Print" -> PrintBodies
       [] OTHER -> {})

\* the inline installs of the concurrent specification
ConcBodies ==
    {JObj([addon |-> JStr(B64Hi)]),
     JObj([addon |-> JStr(B64Empty), temporary |-> JBool(TRUE)]),
     JObj([path |-> JStr(ExistingPath)])}

\* a request: the matched route, its path parameters and the body
Request(route, params, body) == [route |-> route, params |-> params, body |-> body]

Requests ==
    UNION { {Request(r, p, b) : p \in ParamSets, b \in Bodies(r)} : r \in Routes }

ConcRequests ==
    {Request("InstallAddon", [sessionId |-> <<"s1">>], b) : b \in ConcBodies}

(***************************************************************************)
(* State.  fs: the files, path to contents.  used: the identifiers         *)
(* Uuid::new_v4 has returned; an identifier is never returned twice, and   *)
(* a request that needs one when all of 1..NumUuids are used is not        *)
(* started.  th: the request each thread is resolving and how far it got.  *)
(***************************************************************************)
IdleThread ==
    [pc |-> "idle", route |-> "", params |-> EmptyObj, body |-> JNull,
     content |-> <<>>, path |-> <<>>, temporary |-> None,
     result |-> WdErr("", "")]

InitialFiles == (ExistingPath :> <<80, 75>>)

Init ==
    /\ fs = InitialFiles
    /\ used = {}
    /\ th = [t \in {1} |-> IdleThread]

ConcInit ==
    /\ fs = InitialFiles
    /\ used = {}
    /\ th = [t \in 1..NumThreads |-> IdleThread]

Begun(q) ==
    [IdleThread EXCEPT !.route = q.route, !.params = q.params, !.body = q.body]

\* the request reaches File::create
Stages(q) ==
    q.route = "InstallAddon" /\ AddonInstallStart(q.body).step = "stage"

\* a request that stages no file is resolved in one step
Resolve(t, q) ==
    /\ th[t].pc = "idle"
    /\ ~Stages(q)
    /\ th' = [th EXCEPT ![t] =
                [Begun(q) EXCEPT
                    !.pc = "done",
                    !.result = command(q.route, q.params, q.body)]]
    /\ UNCHANGED <<fs, used>>

\* Uuid::new_v4(): an identifier that was never returned before
Uuid_new_v4(u) == u \in Uuids \ used

\* an inline install: the shape is selected, the text decoded and the
\* path of the temporary file made from a fresh identifier
Stage(t, q) ==
    /\ th[t].pc = "idle"
    /\ Stages(q)
    /\ \E u \in Uuids :
          /\ Uuid_new_v4(u)
          /\ used' = used \cup {u}
          /\ th' = [th EXCEPT ![t] =
                      [Begun(q) EXCEPT
                          !.pc = "create",
                          !.content = AddonInstallStart(q.body).content,
                          !.temporary = AddonInstallStart(q.body).value.temporary,
                          !.path = TempPath(u)]]
    /\ UNCHANGED fs

IoError == WdErr("InvalidArgument", "io error")

\* File::create(&path) succeeds
CreateOk(t) ==
    /\ th[t].pc = "create"
    /\ fs' = File_create(fs, th[t].path)
    /\ th' = [th EXCEPT ![t].pc = "write"]
    /\ UNCHANGED used

\* File::create(&path) fails
CreateFail(t) ==
    /\ th[t].pc = "create"
    /\ th' = [th EXCEPT ![t].pc = "done", ![t].result = IoError]
    /\ UNCHANGED <<fs, used>>

\* the value with the file name in place of the joined path
Staged_NameOnly(r) ==
    WdOk(Command("InstallAddon", <<>>,
                 [path |-> Tail(r.path), temporary |-> r.temporary]))

\* the value the decode returns once write has returned Ok: the count of
\* bytes written is dropped
Staged(r) ==
    WdOk(Command("InstallAddon", <<>>, [path |-> r.path, temporary |-> r.temporary]))

\* xpi_file.write(content) returns Ok(n), n bytes were stored, and
\* path.to_str() is Some
WriteOk(t, n) ==
    /\ th[t].pc = "write"
    /\ n \in 0..Len(th[t].content)
    /\ fs' = File_write(fs, th[t].path, th[t].content, n)
    /\ th' = [th EXCEPT ![t].pc = "done", ![t].result = Staged(th[t])]
    /\ UNCHANGED used

\* xpi_file.write(content) returns Ok(n) and path.to_str() is None (the
\* temporary directory of the environment is not valid UTF-8)
WriteOkNotUtf8(t, n) ==
    /\ th[t].pc = "write"
    /\ n \in 0..Len(th[t].content)
    /\ fs' = File_write(fs, th[t].path, th[t].content, n)
    /\ th' = [th EXCEPT ![t].pc = "done",
                        ![t].result = WdErr("InvalidArgument",
                                            "could not write addon to file")]
    /\ UNCHANGED used

\* xpi_file.write(content) returns Err
WriteFail(t) ==
    /\ th[t].pc = "write"
    /\ th' = [th EXCEPT ![t].pc = "done", ![t].result = IoError]
    /\ UNCHANGED <<fs, used>>

\* the result is handed to the caller and the thread takes the next request
Return(t) ==
    /\ th[t].pc = "done"
    /\ th' = [th EXCEPT ![t] = IdleThread]
    /\ UNCHANGED <<fs, used>>

Next ==
    \/ \E t \in DOMAIN th : th[t].pc = "idle" /\ \E q \in Requests : Resolve(t, q)
    \/ \E t \in DOMAIN th : th[t].pc = "idle" /\ \E q \in Requests : Stage(t, q)
    \/ \E t \in DOMAIN th : CreateOk(t)
    \/ \E t \in DOMAIN th : CreateFail(t)
    \/ \E t \in DOMAIN th : \E n \in 0..Len(th[t].content) : WriteOk(t, n)
    \/ \E t \in DOMAIN th : \E n \in 0..Len(th[t].content) : WriteOkNotUtf8(t, n)
    \/ \E t \in DOMAIN th : WriteFail(t)
    \/ \E t \in DOMAIN th : Return(t)

Spec == Init /\ [][Next]_vars

ConcNext ==
    \/ \E t \in DOMAIN th : th[t].pc = "idle" /\ \E q \in ConcRequests : Resolve(t, q)
    \/ \E t \in DOMAIN th : th[t].pc = "idle" /\ \E q \in ConcRequests : Stage(t, q)
    \/ \E t \in DOMAIN th : CreateOk(t)
    \/ \E t \in DOMAIN th : CreateFail(t)
    \/ \E t \in DOMAIN th : \E n \in 0..Len(th[t].content) : WriteOk(t, n)
    \/ \E t \in DOMAIN th : \E n \in 0..Len(th[t].content) : WriteOkNotUtf8(t, n)
    \/ \E t \in DOMAIN th : WriteFail(t)
    \/ \E t \in DOMAIN th : Return(t)

ConcSpec == ConcInit /\ [][ConcNext]_vars

(***************************************************************************)
(* Properties                                                              *)
(***************************************************************************)
Threads == DOMAIN th

Done(t) == th[t].pc = "done"

\* thread t holds a request of this route, resolved or being resolved
On(t, route) == th[t].pc # "idle" /\ th[t].route = route

IsObj(j) == j.t = "obj"

\* C1: an object decodes as AddonInstallParameters only if exactly one of
\* the keys path and addon is present: with both, or with neither, the
\* decode fails (and never gets as far as staging a file), whatever
\* temporary is.
C1_ExactlyOneShape ==
    \A t \in Threads :
        (On(t, "InstallAddon") /\ IsObj(th[t].body)
         /\ (Has(th[t].body.v, "path") = Has(th[t].body.v, "addon")))
        => (Done(t) /\ ~th[t].result.ok)

C1_Witness ==
    \E t \in Threads :
        /\ Done(t) /\ th[t].route = "InstallAddon" /\ IsObj(th[t].body)
        /\ DOMAIN th[t].body.v = {"path", "addon", "temporary"}
        /\ th[t].body.v["path"].t = "str"
        /\ th[t].body.v["addon"] = JStr(B64Hi)
        /\ th[t].body.v["temporary"] = JBool(TRUE)
        /\ ~th[t].result.ok

\* C5: on the two xbl routes, without an elementId path parameter, the
\* outcome is InvalidArgument "Missing elementId parameter" for every body,
\* never a body-decode error or a command.
C5_MissingElementIdFirst ==
    \A t \in Threads :
        (Done(t)
         /\ th[t].route \in {"XblAnonymousChildren", "XblAnonymousByAttribute"}
         /\ ~Has(th[t].params, "elementId"))
        => (/\ ~th[t].result.ok
            /\ th[t].result.error = "InvalidArgument"
            /\ th[t].result.message = "Missing elementId parameter"
            /\ th[t].result.cmd = NoCommand)

C5_Witness ==
    \E t \in Threads :
        /\ Done(t) /\ th[t].route = "XblAnonymousByAttribute"
        /\ ~Has(th[t].params, "elementId")
        /\ th[t].body = JObj([name |-> JNull, value |-> S("bar")])
        /\ th[t].result.message = "Missing elementId parameter"

\* C6: {"scale": v} with v a number decodes as PrintParameters with scale
\* v when 0.1 <= v <= 2.0, bounds included, and fails otherwise.
C6_ScaleRange ==
    \A t \in Threads :
        (Done(t) /\ th[t].route = "Print" /\ IsObj(th[t].body)
         /\ DOMAIN th[t].body.v = {"scale"} /\ th[t].body.v["scale"].t = "num")
        => LET v == th[t].body.v["scale"].v
           IN  IF 10 <= v /\ v <= 200
               THEN th[t].result.ok /\ th[t].result.cmd.payload.scale = v
               ELSE ~th[t].result.ok

C6_Witness ==
    \E t \in Threads :
        /\ Done(t) /\ th[t].route = "Print"
        /\ th[t].body = JObj([scale |-> JNum(200)])
        /\ th[t].result.ok /\ th[t].result.cmd.payload.scale = 200

\* the body is the inline shape with a text that decodes
InlineBody(j) ==
    /\ IsObj(j)
    /\ DOMAIN j.v \subseteq {"addon", "temporary"}
    /\ Has(j.v, "addon") /\ j.v["addon"].t = "str"
    /\ base64_decode(j.v["addon"].v).ok
    /\ Has(j.v, "temporary") => j.v["temporary"].t \in {"bool", "null"}

\* the bytes the text of an inline body stands for
InlineBytes(j) == base64_decode(j.v["addon"].v).val

\* the AddonInstallParameters of a resolved InstallAddon request
Installed(t) == th[t].result.cmd.payload

\* C2: whenever the decode of {"addon": B}, B valid base64, returns
\* success, the file named by the resulting path holds exactly the decoded
\* bytes of B, all of them: a write that stored only a prefix does not end
\* in success.
C2_SuccessMeansAllBytes ==
    \A t \in Threads :
        (Done(t) /\ th[t].route = "InstallAddon" /\ InlineBody(th[t].body)
         /\ th[t].result.ok)
        => (/\ Installed(t).path \in DOMAIN fs
            /\ fs[Installed(t).path] = InlineBytes(th[t].body))

\* C3 as stated: every AddonInstallParameters value that exists, from
\* either input shape, has a path that names a file of the filesystem.
C3_PathAlwaysNamesFile ==
    \A t \in Threads :
        (Done(t) /\ th[t].route = "InstallAddon" /\ th[t].result.ok)
        => Installed(t).path \in DOMAIN fs

\* C3 amended: a value decoded from the inline shape has a path that names
\* a file existing when the value is returned; a value decoded from the
\* path shape carries the path of the input unchanged, whether or not a
\* file exists there.
C3_InlinePathNamesFile ==
    \A t \in Threads :
        (Done(t) /\ th[t].route = "InstallAddon" /\ th[t].result.ok)
        => IF Has(th[t].body.v, "addon")
           THEN Installed(t).path \in DOMAIN fs
           ELSE Installed(t).path = th[t].body.v["path"].v

C3_Witness ==
    \E t1 \in Threads :
        /\ Done(t1) /\ th[t1].route = "InstallAddon" /\ th[t1].result.ok
        /\ InlineBody(th[t1].body)
        /\ Installed(t1).path \in DOMAIN fs
        /\ Installed(t1).path \notin DOMAIN InitialFiles

\* C7: PrintParameters takes defaults field by field: at the top level and
\* inside a supplied page or margin, an absent field has its documented
\* default and a present one its input value; {} decodes to the default
\* value.
Given(o, k, value, default) == IF Has(o, k) THEN o[k].v = value ELSE value = default

C7_PrintDefaultsPerField ==
    \A t \in Threads :
        (Done(t) /\ th[t].route = "Print" /\ IsObj(th[t].body))
        => LET o == th[t].body.v
               x == th[t].result.cmd.payload
           IN  /\ o = EmptyObj => th[t].result.ok
               /\ th[t].result.ok =>
                    /\ Given(o, "orientation",
                             IF x.orientation = "Landscape"
                             THEN <<"landscape">> ELSE <<"portrait">>,
                             <<"portrait">>)
                    /\ Given(o, "scale", x.scale, 100)
                    /\ Given(o, "background", x.background, FALSE)
                    /\ Given(o, "shrinkToFit", x.shrink_to_fit, TRUE)
                    /\ IF Has(o, "pageRanges")
                       THEN o["pageRanges"].v = [i \in DOMAIN x.page_ranges |->
                                                    JStr(x.page_ranges[i])]
                       ELSE x.page_ranges = <<>>
                    /\ IF Has(o, "page")
                       THEN /\ Given(o["page"].v, "width", x.page.width, 2159)
                            /\ Given(o["page"].v, "height", x.page.height, 2794)
                       ELSE x.page = [width |-> 2159, height |-> 2794]
                    /\ IF Has(o, "margin")
                       THEN /\ Given(o["margin"].v, "top", x.margin.top, 100)
                            /\ Given(o["margin"].v, "bottom", x.margin.bottom, 100)
                            /\ Given(o["margin"].v, "left", x.margin.left, 100)
                            /\ Given(o["margin"].v, "right", x.margin.right, 100)
                       ELSE x.margin = [top |-> 100, bottom |-> 100,
                                        left |-> 100, right |-> 100]

C7_Witness ==
    \E t \in Threads :
        /\ Done(t) /\ th[t].route = "Print"
        /\ th[t].body = JObj([page |-> JObj([width |-> JNum(1000)])])
        /\ th[t].result.ok
        /\ th[t].result.cmd.payload.page = [width |-> 1000, height |-> 2794]
        /\ th[t].result.cmd.payload.scale = 100

\* the decode of a parameters_json value back into the payload of its kind
Redecode(kind, j) ==
    CASE kind = "InstallAddon" ->
            LET s == AddonInstallStart(j)
            IN  IF s.step = "value" THEN Ok(s.value) ELSE Err(s.step)
      [] kind = "SetContext" -> DeGeckoContextParameters(j)
      [] kind = "UninstallAddon" -> DeAddonUninstallParameters(j)
      [] kind = "XblAnonymousByAttribute" -> DeXblLocatorParameters(j)
      [] kind = "Print" -> DePrintParameters(j)

\* C8: for every payload a resolution produced, decoding the JSON that
\* parameters_json returns for it succeeds with an equal value, also for an
\* AddonInstallParameters without temporary or made from the inline shape.
C8_RoundTrip ==
    \A t \in Threads :
        (Done(t) /\ th[t].result.ok /\ parameters_json(th[t].result.cmd).some)
        => LET r == Redecode(th[t].result.cmd.kind,
                             parameters_json(th[t].result.cmd).json)
           IN  r.ok /\ r.val = th[t].result.cmd.payload

C8_Witness ==
    \E t \in Threads :
        /\ Done(t) /\ th[t].route = "InstallAddon" /\ th[t].result.ok
        /\ th[t].body = JObj([addon |-> JStr(B64Hi)])
        /\ ~Installed(t).temporary.some
        /\ parameters_json(th[t].result.cmd).json =
              JObj([path |-> JStr(Installed(t).path), temporary |-> JNull])

\* a number field that is present and is no number, or is outside [lo, hi]
BadNum(o, k, lo, hi) ==
    Has(o, k) /\ (o[k].t # "num" \/ o[k].v < lo \/ o[k].v > hi)

\* a field of kind tag that is present with another type
BadType(o, k, tags) == Has(o, k) /\ o[k].t \notin tags

\* a token field that is present and is none of the tokens
BadToken(o, k, tokens) == Has(o, k) /\ (o[k].t # "str" \/ o[k].v \notin tokens)

\* a size field that is present and is no number, or is negative
BadSize(o, k) == Has(o, k) /\ (o[k].t # "num" \/ o[k].v < 0)

\* some field present in the body fails the validation of the route
InvalidField(route, o) ==
    CASE route = "Print" ->
            \/ BadToken(o, "orientation", {<<"portrait">>, <<"landscape">>})
            \/ BadNum(o, "scale", 10, 200)
            \/ BadType(o, "background", {"bool"})
            \/ BadType(o, "shrinkToFit", {"bool"})
            \/ BadType(o, "pageRanges", {"arr"})
            \/ (Has(o, "pageRanges") /\ o["pageRanges"].t = "arr"
                /\ \E i \in DOMAIN o["pageRanges"].v : o["pageRanges"].v[i].t # "str")
            \/ BadType(o, "page", {"obj"})
            \/ (Has(o, "page") /\ IsObj(o["page"])
                /\ \E k \in {"width", "height"} : BadSize(o["page"].v, k))
            \/ BadType(o, "margin", {"obj"})
            \/ (Has(o, "margin") /\ IsObj(o["margin"])
                /\ \E k \in {"top", "bottom", "left", "right"} :
                      BadSize(o["margin"].v, k))
      [] route = "InstallAddon" ->
            \/ BadType(o, "temporary", {"bool", "null"})
            \/ BadType(o, "path", {"str"})
            \/ BadType(o, "addon", {"str"})
      [] route = "SetContext" -> BadToken(o, "context", {<<"content">>, <<"chrome">>})
      [] route = "XblAnonymousByAttribute" ->
            BadType(o, "name", {"str"}) \/ BadType(o, "value", {"str"})
      [] route = "UninstallAddon" -> BadType(o, "id", {"str"})
      [] OTHER -> FALSE

\* C9: when a field present in the body fails validation, the resolution
\* is an error and carries no command: no default stands in for the field
\* and the valid fields are not returned.
C9_NoPartialSuccess ==
    \A t \in Threads :
        (th[t].pc # "idle" /\ IsObj(th[t].body)
         /\ InvalidField(th[t].route, th[t].body.v))
        => (Done(t) /\ ~th[t].result.ok /\ th[t].result.cmd = NoCommand)

C9_Witness ==
    \E t \in Threads :
        /\ Done(t) /\ th[t].route = "Print"
        /\ th[t].body = JObj([orientation |-> S("landscape"),
                              page |-> JObj([width |-> JNum(-100)])])
        /\ ~th[t].result.ok /\ th[t].result.cmd = NoCommand

\* C10: a step changes the filesystem only when it is the File::create or
\* the write of an InstallAddon resolution whose body is the inline shape
\* with valid base64, and it changes only that request's temporary file.
C10_OnlyInlineInstallTouchesFiles ==
    [][fs' # fs =>
        \E t \in Threads :
            /\ th[t].route = "InstallAddon"
            /\ th[t].pc \in {"create", "write"}
            /\ th'[t].pc # th[t].pc
            /\ InlineBody(th[t].body)
            /\ \A q \in DOMAIN fs : q # th[t].path => (q \in DOMAIN fs' /\ fs'[q] = fs[q])
            /\ DOMAIN fs' = DOMAIN fs \cup {th[t].path}]_vars

C10_Witness ==
    \E t \in Threads :
        /\ Done(t) /\ th[t].route = "InstallAddon" /\ InlineBody(th[t].body)
        /\ th[t].result.ok
        /\ fs # InitialFiles
        /\ fs[Installed(t).path] = <<104, 105>>

\* C4: whatever the interleaving, requests of the inline shape hold
\* different paths, a request's path names no file that an earlier request
\* staged, and a file is created, truncated or written only by the request
\* that holds its path.
C4_OwnPathPerRequest ==
    [][/\ \A t1, t2 \in Threads :
             (t1 # t2 /\ th'[t1].path # <<>> /\ th'[t2].path # <<>>)
             => th'[t1].path # th'[t2].path
       /\ \A t \in Threads :
             (th[t].pc = "idle" /\ th'[t].pc = "create")
             => th'[t].path \notin DOMAIN fs
       /\ \A q \in DOMAIN fs' :
             (q \notin DOMAIN fs \/ fs'[q] # fs[q])
             => \E t \in Threads :
                   /\ th[t].path = q
                   /\ th[t].pc \in {"create", "write"}
                   /\ th'[t].pc # th[t].pc
                   /\ \A t2 \in Threads \ {t} : th[t2].path # q]_vars

C4_Witness ==
    \E t1, t2 \in Threads :
        /\ t1 # t2
        /\ th[t1].pc = "write" /\ th[t2].pc = "write"
        /\ th[t1].path \in DOMAIN fs /\ th[t2].path \in DOMAIN fs
        /\ th[t1].path # th[t2].path

====
